---- MODULE Spec2Model ----
(***************************************************************************)
(* A model of overload.py: the OverloadFunction dispatch handle.           *)
(*                                                                         *)
(* The handle keeps two parallel lists, func_list and signatures.          *)
(* __init__ and overload register a callable; __call__ binds the call's    *)
(* arguments against every zipped (callable, signature) pair, type-checks  *)
(* the bound values, and invokes the callable iff exactly one pair matched.*)
(***************************************************************************)
EXTENDS Naturals, Sequences, FiniteSets

(***************************************************************************)
(* Bounds.                                                                 *)
(***************************************************************************)
\* The longest func_list the model lets a handle grow to.
MaxFuncs == 3

(***************************************************************************)
(* Python values and types.  A value is named by a string; PyType gives    *)
(* its runtime class.                                                      *)
(***************************************************************************)
IntZero == "int:0"
IntOne == "int:1"
StrS == "str:'s'"
TupleValue == "tuple"
DictValue == "dict"

PyType(v) ==
    CASE v \in {IntZero, IntOne} -> "int"
      [] v = StrS -> "str"
      [] v = TupleValue -> "tuple"
      [] v = DictValue -> "dict"

\* inspect.Parameter.empty and typing.Any
Empty == "empty"
Any == "Any"

\* inspect.Parameter kinds
POSITIONAL_ONLY == "POSITIONAL_ONLY"
POSITIONAL_OR_KEYWORD == "POSITIONAL_OR_KEYWORD"
VAR_POSITIONAL == "VAR_POSITIONAL"
KEYWORD_ONLY == "KEYWORD_ONLY"
VAR_KEYWORD == "VAR_KEYWORD"

(***************************************************************************)
(* The callables handed to the decorator.  f1 and f2 are the two           *)
(* functions of the class docstring; the others cover a supertype          *)
(* annotation, an unannotated parameter, defaults, a keyword-only          *)
(* parameter, a body that raises, a parameter annotation and a return      *)
(* annotation naming a type that does not exist, and the two variadic      *)
(* kinds.                                                                  *)
(*     def func(a: int, b: str) -> None      f1                            *)
(*     def func(a: str, b: int) -> None      f2                            *)
(*     def g(a: object, b=0)                 g   (its body raises KeyError)*)
(*     def h(a: int = 0, *, b: str = 's')    h                             *)
(*     def bad(a: "Undefined", b: int)       bad                           *)
(*     def badret(a: int) -> "Undefined"     badret                        *)
(*     def va( *args )                       va                            *)
(*     def vk(a: int, **kwargs )             vk                            *)
(***************************************************************************)
Callables == {"f1", "f2", "g", "h", "bad", "badret", "va", "vk"}

Param(n, k, d, a) == [name |-> n, kind |-> k, default |-> d, annotation |-> a]

\* inspect.signature(func).parameters: the raw parameter list of a callable
Parameters(fn) ==
    CASE fn = "f1" -> << Param("a", POSITIONAL_OR_KEYWORD, Empty, "int"),
                         Param("b", POSITIONAL_OR_KEYWORD, Empty, "str") >>
      [] fn = "f2" -> << Param("a", POSITIONAL_OR_KEYWORD, Empty, "str"),
                         Param("b", POSITIONAL_OR_KEYWORD, Empty, "int") >>
      [] fn = "g" -> << Param("a", POSITIONAL_OR_KEYWORD, Empty, "object"),
                        Param("b", POSITIONAL_OR_KEYWORD, IntZero, Empty) >>
      [] fn = "h" -> << Param("a", POSITIONAL_OR_KEYWORD, IntZero, "int"),
                        Param("b", KEYWORD_ONLY, StrS, "str") >>
      [] fn = "bad" -> << Param("a", POSITIONAL_OR_KEYWORD, Empty, "Undefined"),
                          Param("b", POSITIONAL_OR_KEYWORD, Empty, "int") >>
      [] fn = "badret" -> << Param("a", POSITIONAL_OR_KEYWORD, Empty, "int") >>
      [] fn = "va" -> << Param("args", VAR_POSITIONAL, Empty, Empty) >>
      [] fn = "vk" -> << Param("a", POSITIONAL_OR_KEYWORD, Empty, "int"),
                         Param("kwargs", VAR_KEYWORD, Empty, Empty) >>

\* inspect.signature(func).return_annotation: the raw return annotation
ReturnAnnotation(fn) ==
    CASE fn \in {"f1", "f2"} -> "None"
      [] fn = "badret" -> "Undefined"
      [] OTHER -> Empty

\* func.__name__
FuncName(fn) ==
    CASE fn \in {"f1", "f2"} -> "func"
      [] OTHER -> fn

\* The annotations get_type_hints can resolve in the callable's defining
\* scope.
ResolvableTypes == {"int", "str", "object", "None"}

\* What running the callable's body does: return a value, or raise.
Raises(fn) == fn = "g"

(***************************************************************************)
(* Call-site inputs.                                                       *)
(***************************************************************************)
CallValues == {IntOne, StrS}

\* *args: every tuple of at most two values
CallArgs == {<<>>} \cup {<<v>> : v \in CallValues}
            \cup {<<v, w>> : v \in CallValues, w \in CallValues}

\* **kwargs, as a set of <<name, value>> pairs with distinct names
CallKwargs == { {}, {<<"b", StrS>>}, {<<"b", IntOne>>}, {<<"z", IntOne>>} }

KwNames(kwargs) == {p[1] : p \in kwargs}
KwValue(kwargs, n) == (CHOOSE p \in kwargs : p[1] = n)[2]

Min(a, b) == IF a < b THEN a ELSE b

(***************************************************************************)
(* _check_argument_type: typeguard's check_type as a predicate.            *)
(***************************************************************************)
\* typeguard.check_type(value, expected_type) returns (TRUE) or raises
\* TypeCheckError (FALSE)
check_type(value, expected_type) ==
    \/ expected_type = "object"
    \/ PyType(value) = expected_type

_check_argument_type(value, expected_type) == check_type(value, expected_type)

(***************************************************************************)
(* get_function_signature                                                  *)
(***************************************************************************)
\* typing.get_type_hints(func) raises NameError when an annotation, of a
\* parameter or of the return value, names a type that cannot be resolved.
HintsResolvable(fn) ==
    /\ \A i \in 1..Len(Parameters(fn)) :
          Parameters(fn)[i].annotation \in ResolvableTypes \cup {Empty}
    /\ ReturnAnnotation(fn) \in ResolvableTypes \cup {Empty}

\* The entry get_type_hints holds for an annotation: None becomes NoneType.
ResolvedHint(annotation) ==
    IF annotation = "None" THEN "NoneType" ELSE annotation

\* type_hints.get(name, Any)
TypeHint(p) == IF p.annotation = Empty THEN Any ELSE ResolvedHint(p.annotation)

\* type_hints.get('return', Any)
ReturnHint(fn) ==
    IF ReturnAnnotation(fn) = Empty THEN Any
    ELSE ResolvedHint(ReturnAnnotation(fn))

\* The dictionary get_function_signature returns (when get_type_hints does
\* not raise).
get_function_signature(fn) ==
    [ name |-> FuncName(fn),
      return_annotation |-> ReturnHint(fn),
      parameters |->
          [ i \in 1..Len(Parameters(fn)) |->
              [ name |-> Parameters(fn)[i].name,
                kind |-> Parameters(fn)[i].kind,
                default |-> Parameters(fn)[i].default,
                required |-> (Parameters(fn)[i].default = Empty),
                annotation |-> TypeHint(Parameters(fn)[i]) ] ] ]

\* HasVariadic with the VAR_KEYWORD kind forgotten.
HasVarPositionalOnly(fn) ==
    \E i \in 1..Len(Parameters(fn)) : Parameters(fn)[i].kind = VAR_POSITIONAL

\* The check both registration entry points start with: a *args or **kwargs
\* parameter.
HasVariadic(fn) ==
    \E i \in 1..Len(Parameters(fn)) :
        Parameters(fn)[i].kind \in {VAR_POSITIONAL, VAR_KEYWORD}

(***************************************************************************)
(* inspect.signature(func).bind(args, kwargs), then apply_defaults().      *)
(***************************************************************************)
ParamIndexes(fn) == 1..Len(Parameters(fn))

HasKind(fn, kind) == \E i \in ParamIndexes(fn) : Parameters(fn)[i].kind = kind

\* The parameters a positional argument can fill; they come first.
NumPositional(fn) ==
    Cardinality({i \in ParamIndexes(fn) :
        Parameters(fn)[i].kind \in {POSITIONAL_ONLY, POSITIONAL_OR_KEYWORD}})

\* The parameters the call's positional arguments fill, left to right.
FilledPositionally(fn, args) == 1..Min(Len(args), NumPositional(fn))

\* The named parameters no positional argument reached.
NotFilled(fn, args) ==
    {i \in ParamIndexes(fn) \ FilledPositionally(fn, args) :
        Parameters(fn)[i].kind \in
            {POSITIONAL_ONLY, POSITIONAL_OR_KEYWORD, KEYWORD_ONLY}}

\* bind raises TypeError
BindFails(fn, args, kwargs) ==
    LET ps == Parameters(fn)
        rest == NotFilled(fn, args)
    IN  \* too many positional arguments
        \/ Len(args) > NumPositional(fn) /\ ~HasKind(fn, VAR_POSITIONAL)
        \* multiple values for argument
        \/ \E i \in FilledPositionally(fn, args) :
              ps[i].kind # POSITIONAL_ONLY /\ ps[i].name \in KwNames(kwargs)
        \* missing a required argument
        \/ \E i \in rest :
              ps[i].name \notin KwNames(kwargs) /\ ps[i].default = Empty
        \* a positional-only parameter passed as a keyword
        \/ \E i \in rest :
              ps[i].name \in KwNames(kwargs) /\ ps[i].kind = POSITIONAL_ONLY
        \* got an unexpected keyword argument
        \/ /\ KwNames(kwargs) \ {ps[i].name : i \in rest} # {}
           /\ ~HasKind(fn, VAR_KEYWORD)

\* bound_args.arguments after apply_defaults(), when bind did not raise
BoundArguments(fn, args, kwargs) ==
    LET ps == Parameters(fn)
        Value(i) ==
            IF i \in FilledPositionally(fn, args) THEN args[i]
            ELSE IF ps[i].kind = VAR_POSITIONAL THEN TupleValue
            ELSE IF ps[i].kind = VAR_KEYWORD THEN DictValue
            ELSE IF ps[i].name \in KwNames(kwargs)
                 THEN KwValue(kwargs, ps[i].name)
            ELSE ps[i].default
    IN  [ n \in {ps[i].name : i \in ParamIndexes(fn)} |->
            Value(CHOOSE i \in ParamIndexes(fn) : ps[i].name = n) ]

(***************************************************************************)
(* __call__: the body of the loop over zip(self.func_list, self.signatures)*)
(***************************************************************************)
\* The inner loop: every parameter of the signature whose name is bound and
\* whose annotation is not Any passes the type check.
type_matched(fn, signature, args, kwargs) ==
    LET bound == BoundArguments(fn, args, kwargs)
    IN  \A j \in 1..Len(signature.parameters) :
            LET param == signature.parameters[j]
            IN  param.name \in DOMAIN bound =>
                    \/ param.annotation = Any
                    \/ _check_argument_type(bound[param.name], param.annotation)

\* One iteration appends func to matched_funcs: bind did not raise and the
\* types matched.
PairMatches(fn, signature, args, kwargs) ==
    /\ ~BindFails(fn, args, kwargs)
    /\ type_matched(fn, signature, args, kwargs)

\* PairMatches tabulated over the model's callables, descriptors and calls
\* (the loop body is a function of these alone).
AllSignatures == {get_function_signature(fn) : fn \in Callables}

PairMatchesTable ==
    [ fn \in Callables, signature \in AllSignatures,
      args \in CallArgs, kwargs \in CallKwargs |->
        PairMatches(fn, signature, args, kwargs) ]

\* zip stops at the shorter list
ZipLen(fl, sigs) == Min(Len(fl), Len(sigs))

RECURSIVE MatchedUpTo(_, _, _, _, _)
MatchedUpTo(fl, sigs, args, kwargs, n) ==
    IF n = 0 THEN <<>>
    ELSE LET before == MatchedUpTo(fl, sigs, args, kwargs, n - 1)
         IN  IF PairMatchesTable[fl[n], sigs[n], args, kwargs]
             THEN Append(before, fl[n])
             ELSE before

\* matched_funcs after the loop
matched_funcs(fl, sigs, args, kwargs) ==
    MatchedUpTo(fl, sigs, args, kwargs, ZipLen(fl, sigs))

(***************************************************************************)
(* Outcomes of an operation: a returned value or a raised exception.       *)
(* An exception is its class and its message; the two TypeError messages   *)
(* format the call's args and kwargs after a fixed text.                   *)
(***************************************************************************)
NoOutcome ==
    [kind |-> "none", value |-> "", cls |-> "", text |-> "",
     args |-> <<>>, kwargs |-> {}]

Returned(v) ==
    [kind |-> "return", value |-> v, cls |-> "", text |-> "",
     args |-> <<>>, kwargs |-> {}]

Raised(cls, text, args, kwargs) ==
    [kind |-> "raise", value |-> "", cls |-> cls, text |-> text,
     args |-> args, kwargs |-> kwargs]

NoMatchText == "No matching function found for"
MultipleText == "Multiple functions matched for"
VariadicText == "OverloadFunction cannot decorate functions with *args or **kwargs parameters"

\* NoMatchRaise with the arguments left out of the message.
NoMatchRaiseBare(args, kwargs) == Raised("TypeError", NoMatchText, <<>>, {})

\* raise TypeError(f"No matching function found for args: {args}, kwargs: {kwargs}")
NoMatchRaise(args, kwargs) == Raised("TypeError", NoMatchText, args, kwargs)

\* raise TypeError(f"Multiple functions matched for args: {args}, kwargs: {kwargs}")
MultipleRaise(matched, args, kwargs) ==
    Raised("TypeError", MultipleText, args, kwargs)

\* raise ValueError("OverloadFunction cannot decorate functions with ...")
VariadicRaise == Raised("ValueError", VariadicText, <<>>, {})

\* get_type_hints raising NameError out of get_function_signature
ExtractionRaise == Raised("NameError", "name 'Undefined' is not defined", <<>>, {})

\* matched_funcs[0] called with args and kwargs: the callable's own return or raise
Invoke(fn, args, kwargs) ==
    IF Raises(fn) THEN Raised("KeyError", fn, <<>>, {}) ELSE Returned(fn)

Invocation(fn, args, kwargs) == [fn |-> fn, args |-> args, kwargs |-> kwargs]

\* The decision after the loop: what the call returns or raises, and the
\* callables it runs, each with the arguments it is given.
Decide(m, args, kwargs) ==
    IF Len(m) = 0
    THEN [outcome |-> NoMatchRaise(args, kwargs), invoked |-> <<>>]
    ELSE IF Len(m) > 1
    THEN [outcome |-> MultipleRaise(m, args, kwargs), invoked |-> <<>>]
    ELSE [outcome |-> Invoke(m[1], args, kwargs),
          invoked |-> << Invocation(m[1], args, kwargs) >>]

\* The whole of __call__ as a function of the two lists and the arguments.
call_result(fl, sigs, args, kwargs) ==
    Decide(matched_funcs(fl, sigs, args, kwargs), args, kwargs)

(***************************************************************************)
(* State.                                                                  *)
(***************************************************************************)
VARIABLES
    constructed,   \* an OverloadFunction object exists (a handle was returned)
    func_list,     \* self.func_list
    signatures,    \* self.signatures
    registered,    \* history: the callables whose registration returned
    op,            \* the last operation: "none", "__init__", "overload", "__call__"
    opFn,          \* the callable the last registration was given
    callArgs,      \* the last call's positional arguments
    callKwargs,    \* the last call's keyword arguments
    outcome,       \* what the last operation returned or raised
    invoked,       \* the callables the last call ran, with their arguments
    repeat,        \* the last call repeated the call right before it
    prevOutcome,   \* the outcome of that call right before it
    regPc,         \* a registration in progress: the statement it is at
    regFn,         \* the callable that registration is given
    resPc,         \* a resolution in progress: the statement it is at
    resIdx,        \* how many items zip's two list iterators have yielded
    resFunc,       \* the callable zip has read and not yet paired
    resMatched,    \* matched_funcs of the resolution in progress
    resConsidered, \* history: the (callable, signature) pairs its loop ran on
    resSets,       \* history: the registered sets that existed during it
    resOverlap     \* history: a registration took a step during it

handleVars == <<constructed, func_list, signatures>>
opVars == <<op, opFn, callArgs, callKwargs, outcome, invoked, repeat, prevOutcome>>
regVars == <<regPc, regFn>>
resVars == <<resPc, resIdx, resFunc, resMatched, resConsidered, resSets, resOverlap>>
vars == <<handleVars, registered, opVars, regVars, resVars>>

\* No object yet; nothing has run.
Init ==
    /\ constructed = FALSE
    /\ func_list = <<>>
    /\ signatures = <<>>
    /\ registered = <<>>
    /\ op = "none"
    /\ opFn = ""
    /\ callArgs = <<>>
    /\ callKwargs = {}
    /\ outcome = NoOutcome
    /\ invoked = <<>>
    /\ repeat = FALSE
    /\ prevOutcome = NoOutcome
    /\ regPc = "idle"
    /\ regFn = ""
    /\ resPc = "idle"
    /\ resIdx = 0
    /\ resFunc = ""
    /\ resMatched = <<>>
    /\ resConsidered = <<>>
    /\ resSets = {}
    /\ resOverlap = FALSE

\* What a registration leaves in the variables that describe the last operation.
RegistrationDone(name, fn, result) ==
    /\ op' = name
    /\ opFn' = fn
    /\ outcome' = result
    /\ invoked' = <<>>
    /\ repeat' = FALSE
    /\ prevOutcome' = NoOutcome
    /\ UNCHANGED <<callArgs, callKwargs>>

(***************************************************************************)
(* OverloadFunction.__init__(func), also reached through                   *)
(* overload_decorator.  When it raises, the caller gets no object.         *)
(***************************************************************************)
__init__(fn) ==
    /\ ~constructed
    /\ regPc = "idle" /\ resPc = "idle"
    /\ IF HasVariadic(fn)
       THEN /\ RegistrationDone("__init__", fn, VariadicRaise)
            /\ UNCHANGED <<handleVars, registered>>
       ELSE IF ~HintsResolvable(fn)
       THEN /\ RegistrationDone("__init__", fn, ExtractionRaise)
            /\ UNCHANGED <<handleVars, registered>>
       ELSE /\ constructed' = TRUE
            /\ func_list' = <<fn>>
            /\ signatures' = <<get_function_signature(fn)>>
            /\ registered' = <<fn>>
            /\ RegistrationDone("__init__", fn, Returned("self"))
    /\ UNCHANGED <<regVars, resVars>>

(***************************************************************************)
(* OverloadFunction.overload(func), run without interruption.              *)
(* func is appended to func_list before get_function_signature runs, so    *)
(* when that raises, func_list keeps func and signatures gets nothing.     *)
(***************************************************************************)
overload(fn) ==
    /\ constructed
    /\ regPc = "idle" /\ resPc = "idle"
    /\ Len(func_list) < MaxFuncs
    /\ IF HasVariadic(fn)
       THEN /\ RegistrationDone("overload", fn, VariadicRaise)
            /\ UNCHANGED <<func_list, signatures, registered>>
       ELSE /\ func_list' = Append(func_list, fn)
            /\ IF ~HintsResolvable(fn)
               THEN /\ RegistrationDone("overload", fn, ExtractionRaise)
                    /\ UNCHANGED <<signatures, registered>>
               ELSE /\ signatures' = Append(signatures, get_function_signature(fn))
                    /\ registered' = Append(registered, fn)
                    /\ RegistrationDone("overload", fn, Returned("self"))
    /\ UNCHANGED <<constructed, regVars, resVars>>

\* __call__ with the candidates consumed by the call (a stored one-shot
\* iterator instead of a fresh zip): the outcome is the same, the lists are
\* left empty.
call_consuming(args, kwargs) ==
    /\ constructed
    /\ regPc = "idle" /\ resPc = "idle"
    /\ op' = "__call__"
    /\ opFn' = ""
    /\ callArgs' = args
    /\ callKwargs' = kwargs
    /\ LET r == call_result(func_list, signatures, args, kwargs)
       IN  outcome' = r.outcome /\ invoked' = r.invoked
    /\ repeat' = (op = "__call__" /\ callArgs = args /\ callKwargs = kwargs)
    /\ prevOutcome' = IF repeat' THEN outcome ELSE NoOutcome
    /\ func_list' = <<>>
    /\ signatures' = <<>>
    /\ UNCHANGED <<constructed, registered, regVars, resVars>>

(***************************************************************************)
(* OverloadFunction.__call__(args, kwargs), run without interruption.      *)
(***************************************************************************)
__call__(args, kwargs) ==
    /\ constructed
    /\ regPc = "idle" /\ resPc = "idle"
    /\ op' = "__call__"
    /\ opFn' = ""
    /\ callArgs' = args
    /\ callKwargs' = kwargs
    /\ LET r == call_result(func_list, signatures, args, kwargs)
       IN  outcome' = r.outcome /\ invoked' = r.invoked
    /\ repeat' = (op = "__call__" /\ callArgs = args /\ callKwargs = kwargs)
    /\ prevOutcome' = IF repeat' THEN outcome ELSE NoOutcome
    /\ UNCHANGED <<handleVars, registered, regVars, resVars>>

Next ==
    \/ \E fn \in Callables : __init__(fn)
    \/ \E fn \in Callables : overload(fn)
    \/ \E args \in CallArgs, kwargs \in CallKwargs : __call__(args, kwargs)

Spec == Init /\ [][Next]_vars

(***************************************************************************)
(* Vocabulary of the properties.  A candidate is a callable whose          *)
(* registration returned; it survives a call when the call's arguments     *)
(* bind to its own parameters and pass its own declared types.             *)
(***************************************************************************)
\* The value a call gives parameter i of fn: the caller's, else the default.
SuppliedOrDefault(fn, i, args, kwargs) ==
    LET p == Parameters(fn)[i]
    IN  IF i <= Len(args) THEN args[i]
        ELSE IF p.name \in KwNames(kwargs) THEN KwValue(kwargs, p.name)
        ELSE p.default

\* Survival as the design states it, from the callable's own declaration.
Survives(fn, args, kwargs) ==
    /\ ~BindFails(fn, args, kwargs)
    /\ \A i \in ParamIndexes(fn) :
          Parameters(fn)[i].annotation # Empty =>
              LET v == SuppliedOrDefault(fn, i, args, kwargs)
                  t == Parameters(fn)[i].annotation
              IN  t = "object" \/ PyType(v) = t

SurvivesTable ==
    [ fn \in Callables, args \in CallArgs, kwargs \in CallKwargs |->
        IF HasKind(fn, VAR_POSITIONAL) \/ HasKind(fn, VAR_KEYWORD)
        THEN FALSE
        ELSE Survives(fn, args, kwargs) ]

\* The positions in `registered` of the candidates surviving a call.
Survivors(args, kwargs) ==
    {i \in 1..Len(registered) : SurvivesTable[registered[i], args, kwargs]}

RECURSIVE SurvivingUpTo(_, _, _)
SurvivingUpTo(args, kwargs, n) ==
    IF n = 0 THEN <<>>
    ELSE IF SurvivesTable[registered[n], args, kwargs]
    THEN Append(SurvivingUpTo(args, kwargs, n - 1), registered[n])
    ELSE SurvivingUpTo(args, kwargs, n - 1)

\* The surviving candidates, in registration order.
SurvivingCandidates(args, kwargs) == SurvivingUpTo(args, kwargs, Len(registered))

IsNoMatchError(o) == o.kind = "raise" /\ o.cls = "TypeError" /\ o.text = NoMatchText
IsAmbiguousError(o) == o.kind = "raise" /\ o.cls = "TypeError" /\ o.text = MultipleText

\* The two lists hold the same number of entries and entry i of signatures
\* is the descriptor of entry i of func_list.
Aligned ==
    /\ Len(func_list) = Len(signatures)
    /\ \A i \in 1..Len(func_list) :
          signatures[i] = get_function_signature(func_list[i])

\* The lists after registering the callables of seq in order, each
\* registration returning.
RECURSIVE RegisterAll(_)
RegisterAll(seq) ==
    IF Len(seq) = 0 THEN [func_list |-> <<>>, signatures |-> <<>>]
    ELSE LET before == RegisterAll(SubSeq(seq, 1, Len(seq) - 1))
             fn == seq[Len(seq)]
         IN  [func_list |-> Append(before.func_list, fn),
              signatures |-> Append(before.signatures, get_function_signature(fn))]

\* Every order of the entries of seq.
Orders(seq) ==
    LET n == Len(seq)
        Bijections == {f \in [1..n -> 1..n] : \A i, j \in 1..n : f[i] = f[j] => i = j}
    IN  {[i \in 1..n |-> seq[f[i]]] : f \in Bijections}

(***************************************************************************)
(* C1.  A call in which exactly one registered candidate survives runs     *)
(* that candidate once with the call's own args and kwargs, runs nothing   *)
(* else, and returns or raises exactly what the candidate does.            *)
(***************************************************************************)
C1_UniqueSurvivorInvoked ==
    (op = "__call__" /\ Cardinality(Survivors(callArgs, callKwargs)) = 1) =>
        LET fn == registered[CHOOSE i \in Survivors(callArgs, callKwargs) : TRUE]
        IN  /\ invoked = << Invocation(fn, callArgs, callKwargs) >>
            /\ outcome = Invoke(fn, callArgs, callKwargs)

\* C1 restricted to the states in which the two lists are aligned.
C1_WhileAligned == Aligned => C1_UniqueSurvivorInvoked

(***************************************************************************)
(* C2.  A call in which two or more registered candidates survive fails    *)
(* with the multiple-match error and runs no candidate.                    *)
(***************************************************************************)
C2_SeveralSurvivorsAmbiguous ==
    (op = "__call__" /\ Cardinality(Survivors(callArgs, callKwargs)) >= 2) =>
        /\ IsAmbiguousError(outcome)
        /\ invoked = <<>>

\* C2 restricted to the states in which the two lists are aligned.
C2_WhileAligned == Aligned => C2_SeveralSurvivorsAmbiguous

(***************************************************************************)
(* C3.  A call fails with the no-match error iff no registered candidate   *)
(* survives, and then runs no candidate; a candidate's own binding         *)
(* TypeError is never what the caller gets.                                *)
(***************************************************************************)
C3_NoMatchIffNoSurvivor ==
    op = "__call__" =>
        /\ IsNoMatchError(outcome) <=> (Survivors(callArgs, callKwargs) = {})
        /\ IsNoMatchError(outcome) => invoked = <<>>
        /\ (outcome.kind = "raise" /\ invoked = <<>>)
               => (IsNoMatchError(outcome) \/ IsAmbiguousError(outcome))

\* C3 restricted to the states in which the two lists are aligned.
C3_WhileAligned == Aligned => C3_NoMatchIffNoSurvivor

(***************************************************************************)
(* C4.  A registration of a callable with a *args or **kwargs parameter,   *)
(* through __init__ or through overload, raises ValueError and leaves the  *)
(* handle's lists as they were; no entry of either list ever has a         *)
(* variadic parameter.                                                     *)
(***************************************************************************)
VariadicKinds == {VAR_POSITIONAL, VAR_KEYWORD}

DeclaresVariadic(fn) ==
    \E i \in ParamIndexes(fn) : Parameters(fn)[i].kind \in VariadicKinds

NoVariadicMember ==
    /\ \A i \in 1..Len(func_list) : ~DeclaresVariadic(func_list[i])
    /\ \A i \in 1..Len(signatures) :
          \A j \in 1..Len(signatures[i].parameters) :
              signatures[i].parameters[j].kind \notin VariadicKinds
    /\ \A i \in 1..Len(registered) : ~DeclaresVariadic(registered[i])

C4_VariadicRejected ==
    /\ [](NoVariadicMember)
    /\ [][ (op' \in {"__init__", "overload"} /\ DeclaresVariadic(opFn')) =>
              /\ outcome' = VariadicRaise
              /\ UNCHANGED <<constructed, func_list, signatures, registered>> ]_vars

\* A **kwargs callable was offered to overload on a live handle and refused.
C4_Witness ==
    /\ op = "overload" /\ opFn = "vk"
    /\ outcome.kind = "raise" /\ outcome.cls = "ValueError"
    /\ Len(func_list) >= 2

(***************************************************************************)
(* C5.  The outcome of a call is the same whatever order the registered    *)
(* candidates were registered in.                                          *)
(***************************************************************************)
C5_OrderSymmetric ==
    op = "__call__" =>
        \A seq \in Orders(registered) :
            LET lists == RegisterAll(seq)
                r == call_result(lists.func_list, lists.signatures,
                                 callArgs, callKwargs)
            IN  r.outcome = outcome /\ r.invoked = invoked

\* C5 restricted to the states in which the two lists are aligned.
C5_WhileAligned == Aligned => C5_OrderSymmetric

(***************************************************************************)
(* C6.  A call repeated right after itself, with no registration in        *)
(* between, runs the same candidate or raises the same error; a call       *)
(* changes neither list.                                                   *)
(***************************************************************************)
SameOutcome(o1, i1, o2, i2) ==
    /\ i1 = i2
    /\ o1.kind = o2.kind /\ o1.cls = o2.cls /\ o1.text = o2.text

C6_RepeatSameOutcome ==
    /\ [](repeat => SameOutcome(outcome, invoked, prevOutcome, invoked))
    /\ [][ (op = "__call__" /\ op' = "__call__"
            /\ callArgs' = callArgs /\ callKwargs' = callKwargs) =>
              SameOutcome(outcome', invoked', outcome, invoked) ]_vars
    /\ [][ op' = "__call__" =>
              UNCHANGED <<constructed, func_list, signatures, registered>> ]_vars

\* A call was repeated and ran a candidate both times.
C6_Witness == repeat /\ op = "__call__" /\ Len(invoked) = 1

(***************************************************************************)
(* C7.  A candidate is among a call's matches iff it survives: its         *)
(* arguments bind and every annotated parameter's value, the caller's or   *)
(* else the default, satisfies the annotation.                             *)
(***************************************************************************)
C7_MatchedIffSurvives ==
    op = "__call__" =>
        matched_funcs(func_list, signatures, callArgs, callKwargs)
            = SurvivingCandidates(callArgs, callKwargs)

\* C7 restricted to the states in which the two lists are aligned.
C7_WhileAligned == Aligned => C7_MatchedIffSurvives

(***************************************************************************)
(* C8.  As stated: the multiple-match error carries the attempted          *)
(* arguments and the ambiguous candidates, the no-match error carries the  *)
(* attempted arguments, and the two are different kinds of error.          *)
(***************************************************************************)
ResolutionFailed == op = "__call__" /\ outcome.kind = "raise" /\ invoked = <<>>

CarriesArguments(o) == o.args = callArgs /\ o.kwargs = callKwargs

C8_CarriesCandidatesAndKinds ==
    ResolutionFailed =>
        /\ CarriesArguments(outcome)
        /\ IsAmbiguousError(outcome) => "candidates" \in DOMAIN outcome
        /\ NoMatchRaise(callArgs, callKwargs).cls
               # MultipleRaise(<<>>, callArgs, callKwargs).cls

(***************************************************************************)
(* C8, amended.  Both resolution errors are TypeError and carry the        *)
(* attempted args and kwargs in the message; they differ by the message's  *)
(* opening text alone, which tells whether no pair or several pairs        *)
(* matched.                                                                *)
(***************************************************************************)
C8_ErrorsCarryArguments ==
    ResolutionFailed =>
        /\ outcome.cls = "TypeError"
        /\ CarriesArguments(outcome)
        /\ DOMAIN outcome = {"kind", "value", "cls", "text", "args", "kwargs"}
        /\ outcome.text =
               IF Len(matched_funcs(func_list, signatures, callArgs, callKwargs)) = 0
               THEN NoMatchText ELSE MultipleText
        /\ NoMatchText # MultipleText

\* Both errors have been raised for calls with arguments: this state holds
\* the no-match one, for a call with positional and keyword arguments.
C8_Witness ==
    /\ ResolutionFailed
    /\ IsNoMatchError(outcome)
    /\ Len(callArgs) = 2 /\ callKwargs # {}

(***************************************************************************)
(* C9.  The two lists are parallel and hold exactly the callables whose    *)
(* registration returned, in order.                                        *)
(***************************************************************************)
C9_ListsParallel ==
    /\ Len(func_list) = Len(signatures)
    /\ \A i \in 1..Len(func_list) :
          signatures[i] = get_function_signature(func_list[i])
    /\ func_list = registered

(***************************************************************************)
(* One registration and one resolution on the same handle, each a thread   *)
(* that can be preempted between statements.  overload has two statements  *)
(* that touch the handle, the two appends; __call__ reads the lists        *)
(* through zip, whose two list iterators each read one item per round and  *)
(* stop for good at the end of their list.                                 *)
(***************************************************************************)
\* The callables the concurrent registration is given, and the calls made.
ConcFirst == {"f1"}
ConcCallables == {"f2", "bad", "badret", "vk"}
ConcCalls == { <<(<<StrS, IntOne>>), {}>>, <<(<<IntOne>>), {<<"b", StrS>>}>> }

\* A step of the registration while a resolution is in progress.
RegistrationStep ==
    resOverlap' = (resOverlap \/ resPc # "idle")

\* overload, lines 129-132: the variadic check
overload_check(fn) ==
    /\ constructed
    /\ regPc = "idle"
    /\ Len(func_list) < MaxFuncs
    /\ IF HasVariadic(fn)
       THEN UNCHANGED <<regPc, regFn>>
       ELSE regPc' = "append_func" /\ regFn' = fn
    /\ RegistrationStep
    /\ UNCHANGED <<handleVars, registered, opVars>>
    /\ UNCHANGED <<resPc, resIdx, resFunc, resMatched, resConsidered, resSets>>

\* overload, line 134: self.func_list.append(func)
overload_append_func ==
    /\ regPc = "append_func"
    /\ func_list' = Append(func_list, regFn)
    /\ regPc' = "append_sig"
    /\ RegistrationStep
    /\ UNCHANGED <<constructed, signatures, registered, opVars, regFn>>
    /\ UNCHANGED <<resPc, resIdx, resFunc, resMatched, resConsidered, resSets>>

\* overload, lines 135-136: self.signatures.append(get_function_signature(func))
\* and return self, or NameError out of get_function_signature
overload_append_sig ==
    /\ regPc = "append_sig"
    /\ IF ~HintsResolvable(regFn)
       THEN UNCHANGED <<signatures, registered, resSets>>
       ELSE /\ signatures' = Append(signatures, get_function_signature(regFn))
            /\ registered' = Append(registered, regFn)
            /\ resSets' = IF resPc # "idle"
                          THEN resSets \cup {registered'}
                          ELSE resSets
    /\ regPc' = "idle"
    /\ regFn' = ""
    /\ RegistrationStep
    /\ UNCHANGED <<constructed, func_list, opVars>>
    /\ UNCHANGED <<resPc, resIdx, resFunc, resMatched, resConsidered>>

\* __call__, lines 95-97: matched_funcs = [] and the zip object
call_enter(args, kwargs) ==
    /\ constructed
    /\ resPc = "idle"
    /\ resPc' = "next_func"
    /\ resIdx' = 0
    /\ resFunc' = ""
    /\ resMatched' = <<>>
    /\ resConsidered' = <<>>
    /\ resSets' = {registered}
    /\ resOverlap' = (regPc # "idle")
    /\ op' = "__call__"
    /\ opFn' = ""
    /\ callArgs' = args
    /\ callKwargs' = kwargs
    /\ outcome' = NoOutcome
    /\ invoked' = <<>>
    /\ UNCHANGED <<repeat, prevOutcome>>
    /\ UNCHANGED <<handleVars, registered, regVars>>

\* zip's round, first half: the next item of func_list's iterator
zip_next_func ==
    /\ resPc = "next_func"
    /\ IF resIdx < Len(func_list)
       THEN resFunc' = func_list[resIdx + 1] /\ resPc' = "next_sig"
       ELSE resFunc' = "" /\ resPc' = "decide"
    /\ UNCHANGED <<resIdx, resMatched, resConsidered, resSets, resOverlap>>
    /\ UNCHANGED <<handleVars, registered, opVars, regVars>>

\* zip's round, second half: the next item of signatures' iterator, and the
\* loop body (lines 98-118) on the pair
zip_next_sig ==
    /\ resPc = "next_sig"
    /\ IF resIdx < Len(signatures)
       THEN LET signature == signatures[resIdx + 1]
            IN  /\ resConsidered' =
                       Append(resConsidered, [fn |-> resFunc, signature |-> signature])
                /\ resMatched' =
                       IF PairMatchesTable[resFunc, signature, callArgs, callKwargs]
                       THEN Append(resMatched, resFunc)
                       ELSE resMatched
                /\ resIdx' = resIdx + 1
                /\ resPc' = "next_func"
       ELSE /\ resPc' = "decide"
            /\ UNCHANGED <<resIdx, resMatched, resConsidered>>
    /\ resFunc' = ""
    /\ UNCHANGED <<resSets, resOverlap>>
    /\ UNCHANGED <<handleVars, registered, opVars, regVars>>

\* __call__, lines 120-125: the decision on matched_funcs
call_decide ==
    /\ resPc = "decide"
    /\ LET r == Decide(resMatched, callArgs, callKwargs)
       IN  outcome' = r.outcome /\ invoked' = r.invoked
    /\ resPc' = "idle"
    /\ UNCHANGED <<op, opFn, callArgs, callKwargs, repeat, prevOutcome>>
    /\ UNCHANGED <<resIdx, resFunc, resMatched, resConsidered, resSets, resOverlap>>
    /\ UNCHANGED <<handleVars, registered, regVars>>

NextConc ==
    \/ \E fn \in ConcFirst : __init__(fn)
    \/ \E fn \in ConcCallables : overload_check(fn)
    \/ overload_append_func
    \/ overload_append_sig
    \/ \E c \in ConcCalls : call_enter(c[1], c[2])
    \/ zip_next_func
    \/ zip_next_sig
    \/ call_decide

SpecConc == Init /\ [][NextConc]_vars

(***************************************************************************)
(* C10.  A resolution that overlaps a registration runs its loop only on   *)
(* pairs of a callable with that callable's own descriptor, and on exactly *)
(* the candidates of a set that existed while it ran: the set before the   *)
(* registration or the set after it.                                       *)
(***************************************************************************)
ConsideredCallables == [i \in 1..Len(resConsidered) |-> resConsidered[i].fn]

ResolutionFinished == op = "__call__" /\ resPc = "idle"

C10_NoPartialSet ==
    resOverlap =>
        /\ \A i \in 1..Len(resConsidered) :
              resConsidered[i].signature
                  = get_function_signature(resConsidered[i].fn)
        /\ ResolutionFinished => ConsideredCallables \in resSets

\* The lists are aligned but for the one callable a registration in
\* progress has appended and not yet described.
AlignedButInFlight ==
    \/ regPc # "append_sig" /\ Aligned
    \/ /\ regPc = "append_sig"
       /\ Len(func_list) = Len(signatures) + 1
       /\ \A i \in 1..Len(signatures) :
             signatures[i] = get_function_signature(func_list[i])

\* C10 restricted to the states no failed registration has led to.
C10_WhileAligned == AlignedButInFlight => C10_NoPartialSet

====
